---- MODULE Spec2Model ----
(***************************************************************************)
(* State-machine model of the download bot in src/bot.py: the per-user     *)
(* session (context.user_data), the files under downloads/, the update     *)
(* queue of the Application and the coroutine frames of start_download     *)
(* and start_playlist_download.                                            *)
(***************************************************************************)
EXTENDS Integers, Sequences, FiniteSets, TLC

VARIABLES
    user_data,     \* [user -> session dict]  (context.user_data)
    files,         \* paths that exist under downloads/
    frame,         \* [slot -> coroutine frame of a download handler]
    update_queue   \* updates fetched from Telegram, not yet processed

vars == <<user_data, files, frame, update_queue>>

----------------------------------------------------------------------------
\* Bounds of the model.

MaxQueue == 1       \* updates waiting in the queue
MainEntries == 2    \* longest playlist in the whole-bot specification
MaxEntries == 5     \* longest playlist in the batch specification
FlightEntries == 2  \* longest playlist in the in-flight specification

----------------------------------------------------------------------------
\* Python values.

\* dict.get(key): an absent key is None, a present one is Some(v).
None == <<>>
Some(v) == <<v>>
Get(o, default) == IF o = None THEN default ELSE o[1]

\* context.user_data after construction and after .clear().
EmptyUserData ==
    [current_url |-> None, is_playlist |-> None, playlist_info |-> None,
     download_type |-> None, quality |-> None]

\* callback_data, split at the prefix the handler tests with startswith().
Tok(p, s) == [p |-> p, s |-> s]

RecognizedTokens ==
    {Tok("info_", "video"), Tok("info_", "audio"), Tok("info_", "playlist"),
     Tok("", "cancel"), Tok("type_", "video"), Tok("type_", "audio"),
     Tok("back_", "type"),
     Tok("quality_", "best"), Tok("quality_", "720"), Tok("quality_", "480"),
     Tok("quality_", "360"),
     Tok("playlist_", "video"), Tok("playlist_", "audio")}

UnknownToken == Tok("", "noop")

\* Message texts: a text that names no YouTube host, a video link, a playlist link.
PlainText == [yt |-> FALSE, kind |-> "text"]
VideoLink == [yt |-> TRUE, kind |-> "video"]
PlaylistLink == [yt |-> TRUE, kind |-> "playlist"]
NoData == Tok("", "")

TextUpdate(u, text) == [user |-> u, kind |-> "text", text |-> text, data |-> NoData]
ButtonUpdate(u, tok) == [user |-> u, kind |-> "button", text |-> PlainText, data |-> tok]

\* 'youtube.com' in message_text or 'youtu.be' in message_text
IsYouTubeUrl(text) == text.yt

----------------------------------------------------------------------------
\* The extraction engine (yt_dlp), at its boundary.

\* info['entries'] of a playlist of n items: item k is None (0) or the
\* entry of video k.
EntryLists(n) ==
    UNION {{e \in [1..k -> 0..n] : \A j \in 1..k : e[j] \in {0, j}} : k \in 0..n}

\* get_video_info(url): None on any extraction error, else the info dict.
GetVideoInfo(url, n) ==
    {None} \cup
    (IF url.kind = "playlist"
     THEN {Some([has_entries |-> TRUE, entries |-> e]) : e \in EntryLists(n)}
     ELSE {Some([has_entries |-> FALSE, entries |-> <<>>])})

\* The video a link names: a video link names video 1, a batch entry its own.
VideoOfLink == 1

\* entry.get('url') or f"https://youtube.com/watch?v={entry.get('id')}"
EntryUrl(entry) == entry

\* Artifact sizes the engine can produce (bytes): 50 MiB, exactly 2000 MiB,
\* one byte more.
BytesPerMB == 1024 * 1024
LimitMB == 2000
Sizes == {50 * BytesPerMB, LimitMB * BytesPerMB, LimitMB * BytesPerMB + 1}

\* download_video(url, ...): (None, str(e)) on failure (filename 0), else
\* (filename, info) with the file written at downloads/<title>.<ext>; the
\* title is the video's, so the path is named by the video.  A playlist url
\* handed to the single-item download yields no file at the returned name.
DownloadVideo(video) ==
    {[filename |-> 0, size |-> 0]} \cup
    (IF video = 0 THEN {} ELSE {[filename |-> video, size |-> sz] : sz \in Sizes})

\* One alternative of a format rule: the streams it takes ("video+audio" =
\* best video merged with best audio, "single" = best single stream,
\* "audio" = best audio-only stream), the height ceiling ("" = none) and the
\* container it asks for ("any" = no constraint).
Alt(streams, height, ext) == [streams |-> streams, height |-> height, ext |-> ext]

\* ydl_opts['format'] as download_video builds it: the alternatives of the
\* format string, separated by '/', in the order they are tried.
FormatSpecFlat(download_type, quality) ==
    IF download_type = "audio"
    THEN <<Alt("audio", "", "any"), Alt("single", "", "any")>>
    ELSE IF quality = "best"
    THEN <<Alt("video+audio", "", "mp4"), Alt("single", "", "mp4"), Alt("single", "", "any")>>
    ELSE <<Alt("single", "", "mp4"), Alt("single", "", "any")>>

FormatSpec(download_type, quality) ==
    IF download_type = "audio"
    THEN \* 'bestaudio/best'
         <<Alt("audio", "", "any"), Alt("single", "", "any")>>
    ELSE IF quality = "best"
    THEN \* 'bestvideo[ext=mp4]+bestaudio[ext=m4a]/best[ext=mp4]/best'
         <<Alt("video+audio", "", "mp4"), Alt("single", "", "mp4"), Alt("single", "", "any")>>
    ELSE IF quality \in {"720", "480", "360"}
    THEN \* 'bestvideo[height<=H][ext=mp4]+bestaudio[ext=m4a]/best[height<=H]'
         <<Alt("video+audio", quality, "mp4"), Alt("single", quality, "any")>>
    ELSE \* 'best[ext=mp4]/best'
         <<Alt("single", "", "mp4"), Alt("single", "", "any")>>

\* file_size = os.path.getsize(filename) / (1024 * 1024); file_size > 2000.
\* The float division by 2^20 is exact, so the test is on the byte count.
TooLarge(bytes) == bytes > LimitMB * BytesPerMB

----------------------------------------------------------------------------
\* Coroutine frames.

Slots == {1, 2}

IdleFrame ==
    [pc |-> "idle", user |-> "-", url |-> None, download_type |-> "-",
     quality |-> "-", format |-> <<>>, filename |-> 0, size |-> 0,
     entries |-> <<>>, i |-> 0, success_count |-> 0, fail_count |-> 0,
     \* history: sent = the send of the current artifact was called;
     \* artifacts = files this run wrote and has not removed; rm_failed = an
     \* os.remove call of this run raised; progress = indices at which the
     \* progress message was issued; summaries = summary messages issued;
     \* delivered = sends that returned; outcome = result of the single flow
     sent |-> FALSE, artifacts |-> {}, rm_failed |-> FALSE, progress |-> {},
     summaries |-> 0, delivered |-> 0, outcome |-> "-"]

\* Application.builder().token(BOT_TOKEN).build(): concurrent_updates is off,
\* so the update fetcher awaits each handler before it takes the next update.
DispatcherFreeConcurrent == \E s \in Slots : frame[s].pc = "idle"
DispatcherFree == \A s \in Slots : frame[s].pc = "idle"

FreeSlot == CHOOSE s \in Slots : frame[s].pc = "idle" /\ \A t \in Slots : frame[t].pc = "idle" => s <= t

Users == DOMAIN user_data

----------------------------------------------------------------------------
\* Initial state.

InitFor(users) ==
    /\ user_data = [u \in users |-> EmptyUserData]
    /\ files = {}
    /\ frame = [s \in Slots |-> IdleFrame]
    /\ update_queue = <<>>

\* Polling: an update arrives in the queue (at any time).
Receive(updates) ==
    /\ Len(update_queue) < MaxQueue
    /\ \E upd \in updates : update_queue' = Append(update_queue, upd)
    /\ UNCHANGED <<user_data, files, frame>>

\* The fetcher takes the head of the queue when no handler is running.
Taken(upd) ==
    /\ update_queue # <<>>
    /\ upd = Head(update_queue)
    /\ DispatcherFree
    /\ update_queue' = Tail(update_queue)

----------------------------------------------------------------------------
\* handle_message

HandleMessage(n) ==
    /\ update_queue # <<>>
    /\ LET upd == Head(update_queue)
           u == upd.user
           stored == [user_data[u] EXCEPT !.current_url = Some(upd.text)]
       IN /\ upd.kind = "text"
          /\ Taken(upd)
          /\ UNCHANGED <<files, frame>>
          /\ IF ~IsYouTubeUrl(upd.text)
             THEN UNCHANGED user_data
             ELSE \* current_url is stored before the link is analysed
                  \E reply_ok \in BOOLEAN, info \in GetVideoInfo(upd.text, n) :
                    IF ~reply_ok \/ info = None
                    THEN \* reply_text("Analyzing link...") raises, or
                         \* "Could not fetch video information": return
                         user_data' = [user_data EXCEPT ![u] = stored]
                    ELSE IF info[1].has_entries
                    THEN user_data' =
                           [user_data EXCEPT ![u] =
                              [stored EXCEPT !.is_playlist = Some(TRUE),
                                             !.playlist_info = info]]
                    ELSE user_data' =
                           [user_data EXCEPT ![u] =
                              [stored EXCEPT !.is_playlist = Some(FALSE)]]

----------------------------------------------------------------------------
\* start_download, up to the await of the executor; format is the rule
\* download_video builds from the arguments it is handed

StartDownload(u, ud) ==
    LET url == ud.current_url
        download_type == Get(ud.download_type, "video")
        quality == Get(ud.quality, "best")
    IN /\ user_data' = [user_data EXCEPT ![u] = ud]
       /\ UNCHANGED files
       /\ IF url = None
          THEN \* "URL not found. Please send the link again."
               UNCHANGED frame
          ELSE \E edit_ok \in BOOLEAN :
                 IF edit_ok
                 THEN frame' = [frame EXCEPT ![FreeSlot] =
                                  [IdleFrame EXCEPT !.pc = "sd_exec", !.user = u,
                                                    !.url = url,
                                                    !.download_type = download_type,
                                                    !.quality = quality,
                                                    !.format = FormatSpec(download_type, quality)]]
                 ELSE UNCHANGED frame

\* start_playlist_download, up to the first iteration of the loop
StartPlaylistDownload(u, ud) ==
    LET info == ud.playlist_info
        download_type == Get(ud.download_type, "video")
    IN /\ user_data' = [user_data EXCEPT ![u] = ud]
       /\ UNCHANGED files
       /\ IF info = None \/ ~info[1].has_entries
          THEN \* "Playlist information not found."
               UNCHANGED frame
          ELSE \E edit_ok \in BOOLEAN :
                 IF edit_ok
                 THEN frame' = [frame EXCEPT ![FreeSlot] =
                                  [IdleFrame EXCEPT !.pc = "pl_loop", !.user = u,
                                                    !.download_type = download_type,
                                                    !.format = FormatSpec(download_type, "best"),
                                                    !.entries = info[1].entries]]
                 ELSE UNCHANGED frame

----------------------------------------------------------------------------
\* button_callback: the branch taken for a token, in the order of the tests

Branch(data) ==
    IF data.p = "info_" THEN "info"
    ELSE IF data = Tok("", "cancel") THEN "cancel"
    ELSE IF data = Tok("type_", "video") THEN "type_video"
    ELSE IF data = Tok("type_", "audio") THEN "type_audio"
    ELSE IF data = Tok("back_", "type") THEN "back_type"
    ELSE IF data.p = "quality_" THEN "quality"
    ELSE IF data.p = "playlist_" THEN "playlist"
    ELSE "none"

Button(branch) ==
    /\ update_queue # <<>>
    /\ Head(update_queue).kind = "button"
    /\ Branch(Head(update_queue).data) = branch
    /\ Taken(Head(update_queue))

\* info_*, type_video, back_type and unmatched tokens only edit the message
ButtonInfo ==
    /\ Button("info")
    /\ UNCHANGED <<user_data, files, frame>>

ButtonTypeVideoStoresType ==
    /\ Button("type_video")
    /\ UNCHANGED <<files, frame>>
    /\ user_data' = [user_data EXCEPT ![Head(update_queue).user].download_type = Some("video")]

ButtonTypeVideo ==
    /\ Button("type_video")
    /\ UNCHANGED <<user_data, files, frame>>

ButtonBack ==
    /\ Button("back_type")
    /\ UNCHANGED <<user_data, files, frame>>

ButtonUnknown ==
    /\ Button("none")
    /\ UNCHANGED <<user_data, files, frame>>

ButtonCancel ==
    /\ Button("cancel")
    /\ UNCHANGED <<files, frame>>
    /\ \E edit_ok \in BOOLEAN :
         IF edit_ok
         THEN user_data' = [user_data EXCEPT ![Head(update_queue).user] = EmptyUserData]
         ELSE UNCHANGED user_data

ButtonTypeAudio ==
    /\ Button("type_audio")
    /\ LET u == Head(update_queue).user
       IN StartDownload(u, [user_data[u] EXCEPT !.download_type = Some("audio")])

ButtonQuality ==
    /\ Button("quality")
    /\ LET u == Head(update_queue).user
           quality == Head(update_queue).data.s
       IN StartDownload(u, [user_data[u] EXCEPT !.download_type = Some("video"),
                                                !.quality = Some(quality)])

ButtonPlaylist ==
    /\ Button("playlist")
    /\ LET u == Head(update_queue).user
           download_type == Head(update_queue).data.s
       IN StartPlaylistDownload(u, [user_data[u] EXCEPT
                                      !.download_type = Some(download_type),
                                      !.is_playlist = Some(TRUE)])

----------------------------------------------------------------------------
\* start_download, after the executor returns

Cleared(u) == [user_data EXCEPT ![u] = EmptyUserData]

\* lines 380-395 and 424-428: the result, the size check, the status update
SdDownloaded(s) ==
    /\ frame[s].pc = "sd_exec"
    /\ UNCHANGED update_queue
    /\ LET f == frame[s]
           video == IF f.url[1].kind = "video" THEN VideoOfLink ELSE 0
       IN \E r \in DownloadVideo(video), edit_ok \in BOOLEAN, rm_ok \in BOOLEAN :
            LET got == [f EXCEPT !.filename = r.filename, !.size = r.size]
            IN IF r.filename = 0
               THEN \* "Download failed: ..."
                    /\ files' = files
                    /\ IF edit_ok
                       THEN /\ user_data' = Cleared(f.user)
                            /\ frame' = [frame EXCEPT ![s] =
                                 [got EXCEPT !.pc = "done", !.outcome = "download_failed"]]
                       ELSE /\ UNCHANGED user_data
                            /\ frame' = [frame EXCEPT ![s] =
                                 [got EXCEPT !.pc = "raised", !.outcome = "download_failed"]]
               ELSE IF TooLarge(r.size)
               THEN \* "File too large": edit, os.remove, return
                    /\ UNCHANGED user_data
                    /\ IF edit_ok /\ rm_ok
                       THEN /\ files' = (files \cup {r.filename}) \ {r.filename}
                            /\ frame' = [frame EXCEPT ![s] =
                                 [got EXCEPT !.pc = "done", !.outcome = "too_large"]]
                       ELSE /\ files' = files \cup {r.filename}
                            /\ frame' = [frame EXCEPT ![s] =
                                 [got EXCEPT !.pc = "raised", !.outcome = "too_large",
                                             !.artifacts = {r.filename},
                                             !.rm_failed = edit_ok]]
               ELSE \* "Download complete! Uploading to Telegram"
                    /\ UNCHANGED user_data
                    /\ files' = files \cup {r.filename}
                    /\ IF edit_ok
                       THEN frame' = [frame EXCEPT ![s] =
                              [got EXCEPT !.pc = "sd_send", !.sent = TRUE,
                                          !.artifacts = {r.filename}]]
                       ELSE frame' = [frame EXCEPT ![s] =
                              [got EXCEPT !.pc = "raised",
                                          !.artifacts = {r.filename}]]

\* lines 398-428: the send, the status updates, the finally clause, the clear
SdSend(s) ==
    /\ frame[s].pc = "sd_send"
    /\ UNCHANGED update_queue
    /\ LET f == frame[s]
       IN \E send_ok \in BOOLEAN, done_edit_ok \in BOOLEAN,
             error_edit_ok \in BOOLEAN, rm_ok \in BOOLEAN :
            LET \* the except clause runs when the send or the "Done!" edit raises
                handled == ~(send_ok /\ done_edit_ok)
                \* an exception of the edit in the except clause propagates
                pending == handled /\ ~error_edit_ok
                exists == f.filename \in files
                removed == exists /\ rm_ok
                raises == pending \/ (exists /\ ~rm_ok)
                outcome == IF send_ok THEN "delivered" ELSE "upload_failed"
            IN /\ files' = IF removed THEN files \ {f.filename} ELSE files
               /\ user_data' = IF raises THEN user_data ELSE Cleared(f.user)
               /\ frame' = [frame EXCEPT ![s] =
                    [f EXCEPT !.pc = IF raises THEN "raised" ELSE "done",
                              !.outcome = outcome,
                              !.delivered = IF send_ok THEN 1 ELSE 0,
                              !.artifacts = IF removed THEN {} ELSE f.artifacts,
                              !.rm_failed = exists /\ ~rm_ok]]

\* The handler's coroutine ends: it returned, or its exception reached
\* error_handler, which only replies.
Return(s) ==
    /\ frame[s].pc \in {"done", "raised"}
    /\ frame' = [frame EXCEPT ![s] = IdleFrame]
    /\ UNCHANGED <<user_data, files, update_queue>>

----------------------------------------------------------------------------
\* start_playlist_download: the loop over the entries

\* i % 5 == 0 or i == 1
ProgressDue(i) == i % 5 = 0 \/ i = 1

\* except Exception: log, fail_count += 1, continue
OnEntryExceptionAbort(f) == [f EXCEPT !.pc = "raised"]
OnEntryException(f) == [f EXCEPT !.fail_count = @ + 1, !.pc = "pl_loop"]

\* lines 453-465: the next entry, the skip of an empty entry, the progress message
PlIter(s) ==
    /\ frame[s].pc = "pl_loop"
    /\ UNCHANGED <<user_data, files, update_queue>>
    /\ LET f == frame[s]
           k == f.i + 1
           next == [f EXCEPT !.i = k, !.filename = 0, !.size = 0, !.sent = FALSE]
       IN IF f.i = Len(f.entries)
          THEN frame' = [frame EXCEPT ![s] = [f EXCEPT !.pc = "pl_summary"]]
          ELSE IF f.entries[k] = 0
          THEN \* if not entry: continue
               frame' = [frame EXCEPT ![s] = next]
          ELSE IF ProgressDue(k)
          THEN \E send_ok \in BOOLEAN :
                 LET told == [next EXCEPT !.progress = @ \cup {k}]
                 IN frame' = [frame EXCEPT ![s] =
                      IF send_ok THEN [told EXCEPT !.pc = "pl_exec"]
                      ELSE OnEntryException(told)]
          ELSE frame' = [frame EXCEPT ![s] = [next EXCEPT !.pc = "pl_exec"]]

\* lines 467-481 and 500-501: the result and the size check
PlDownloaded(s) ==
    /\ frame[s].pc = "pl_exec"
    /\ UNCHANGED <<user_data, update_queue>>
    /\ LET f == frame[s]
       IN \E r \in DownloadVideo(EntryUrl(f.entries[f.i])), rm_ok \in BOOLEAN :
            LET got == [f EXCEPT !.filename = r.filename, !.size = r.size]
            IN IF r.filename = 0
               THEN /\ files' = files
                    /\ frame' = [frame EXCEPT ![s] =
                         [got EXCEPT !.fail_count = @ + 1, !.pc = "pl_loop"]]
               ELSE IF TooLarge(r.size)
               THEN \* fail_count += 1; os.remove(filename); continue
                    LET counted == [got EXCEPT !.fail_count = @ + 1, !.pc = "pl_loop"]
                    IN IF rm_ok
                       THEN /\ files' = (files \cup {r.filename}) \ {r.filename}
                            /\ frame' = [frame EXCEPT ![s] = counted]
                       ELSE /\ files' = files \cup {r.filename}
                            /\ frame' = [frame EXCEPT ![s] =
                                 OnEntryException(
                                   [counted EXCEPT !.artifacts = @ \cup {r.filename},
                                                   !.rm_failed = TRUE])]
               ELSE /\ files' = files \cup {r.filename}
                    /\ frame' = [frame EXCEPT ![s] =
                         [got EXCEPT !.pc = "pl_send", !.sent = TRUE,
                                     !.artifacts = @ \cup {r.filename}]]

\* lines 483-499 and 503-506: the send, the count, the removal
PlSend(s) ==
    /\ frame[s].pc = "pl_send"
    /\ UNCHANGED <<user_data, update_queue>>
    /\ LET f == frame[s]
       IN \E send_ok \in BOOLEAN, rm_ok \in BOOLEAN :
            IF ~send_ok
            THEN /\ files' = files
                 /\ frame' = [frame EXCEPT ![s] = OnEntryException(f)]
            ELSE LET counted == [f EXCEPT !.success_count = @ + 1,
                                          !.delivered = @ + 1, !.pc = "pl_loop"]
                 IN IF rm_ok
                    THEN /\ files' = files \ {f.filename}
                         /\ frame' = [frame EXCEPT ![s] =
                              [counted EXCEPT !.artifacts = @ \ {f.filename}]]
                    ELSE /\ files' = files
                         /\ frame' = [frame EXCEPT ![s] =
                              OnEntryException([counted EXCEPT !.rm_failed = TRUE])]

\* lines 508-518: the summary message and the clear
PlSummary(s) ==
    /\ frame[s].pc = "pl_summary"
    /\ UNCHANGED <<files, update_queue>>
    /\ LET f == frame[s]
       IN \E send_ok \in BOOLEAN :
            IF send_ok
            THEN /\ user_data' = Cleared(f.user)
                 /\ frame' = [frame EXCEPT ![s] =
                      [f EXCEPT !.pc = "done", !.summaries = @ + 1]]
            ELSE /\ UNCHANGED user_data
                 /\ frame' = [frame EXCEPT ![s] =
                      [f EXCEPT !.pc = "raised", !.summaries = @ + 1]]

----------------------------------------------------------------------------
\* The whole bot: one user, every token, playlists of up to MainEntries items.

MainUsers == {"u1"}

MainUpdates ==
    {TextUpdate(u, t) : u \in MainUsers, t \in {PlainText, VideoLink, PlaylistLink}}
    \cup {ButtonUpdate(u, d) : u \in MainUsers, d \in RecognizedTokens \cup {UnknownToken}}

Init == InitFor(MainUsers)

Poll == Receive(MainUpdates)

Message == HandleMessage(MainEntries)

Next ==
    \/ Poll
    \/ Message
    \/ ButtonInfo
    \/ ButtonCancel
    \/ ButtonTypeVideo
    \/ ButtonTypeAudio
    \/ ButtonBack
    \/ ButtonQuality
    \/ ButtonPlaylist
    \/ ButtonUnknown
    \/ \E s \in Slots : SdDownloaded(s)
    \/ \E s \in Slots : SdSend(s)
    \/ \E s \in Slots : PlIter(s)
    \/ \E s \in Slots : PlDownloaded(s)
    \/ \E s \in Slots : PlSend(s)
    \/ \E s \in Slots : PlSummary(s)
    \/ \E s \in Slots : Return(s)

Spec == Init /\ [][Next]_vars

\* The batch flow alone: one user, playlist links of up to MaxEntries items
\* and the two playlist tokens.

BatchUpdates ==
    {TextUpdate("u1", PlaylistLink)}
    \cup {ButtonUpdate("u1", d) : d \in {Tok("playlist_", "video"), Tok("playlist_", "audio")}}

PollBatch == Receive(BatchUpdates)

MessageBatch == HandleMessage(MaxEntries)

NextBatch ==
    \/ PollBatch
    \/ MessageBatch
    \/ ButtonPlaylist
    \/ \E s \in Slots : PlIter(s)
    \/ \E s \in Slots : PlDownloaded(s)
    \/ \E s \in Slots : PlSend(s)
    \/ \E s \in Slots : PlSummary(s)
    \/ \E s \in Slots : Return(s)

SpecBatch == Init /\ [][NextBatch]_vars

\* Downloads in flight: one user, a video link, a playlist link of up to
\* FlightEntries items and the tokens that start a download.

FlightUpdates ==
    {TextUpdate("u1", t) : t \in {VideoLink, PlaylistLink}}
    \cup {ButtonUpdate("u1", d) :
            d \in {Tok("type_", "audio"), Tok("quality_", "720"), Tok("playlist_", "audio")}}

PollFlight == Receive(FlightUpdates)

MessageFlight == HandleMessage(FlightEntries)

NextFlight ==
    \/ PollFlight
    \/ MessageFlight
    \/ ButtonTypeAudio
    \/ ButtonQuality
    \/ ButtonPlaylist
    \/ \E s \in Slots : SdDownloaded(s)
    \/ \E s \in Slots : SdSend(s)
    \/ \E s \in Slots : PlIter(s)
    \/ \E s \in Slots : PlDownloaded(s)
    \/ \E s \in Slots : PlSend(s)
    \/ \E s \in Slots : PlSummary(s)
    \/ \E s \in Slots : Return(s)

SpecFlight == Init /\ [][NextFlight]_vars

\* Cancelling: the in-flight specification with the cancel token added.

CancelUpdates == FlightUpdates \cup {ButtonUpdate("u1", Tok("", "cancel"))}

PollCancel == Receive(CancelUpdates)

NextCancel ==
    \/ PollCancel
    \/ MessageFlight
    \/ ButtonCancel
    \/ ButtonTypeAudio
    \/ ButtonQuality
    \/ ButtonPlaylist
    \/ \E s \in Slots : SdDownloaded(s)
    \/ \E s \in Slots : SdSend(s)
    \/ \E s \in Slots : PlIter(s)
    \/ \E s \in Slots : PlDownloaded(s)
    \/ \E s \in Slots : PlSend(s)
    \/ \E s \in Slots : PlSummary(s)
    \/ \E s \in Slots : Return(s)

SpecCancel == Init /\ [][NextCancel]_vars

\* Tokens that no menu of the bot offers: one that matches no test of
\* button_callback and three that carry a prefix it tests with startswith().

ForeignTokens ==
    {UnknownToken, Tok("quality_", "1080"), Tok("playlist_", "all"), Tok("info_", "more")}

TokenUpdates ==
    {TextUpdate("u1", t) : t \in {VideoLink, PlaylistLink}}
    \cup {ButtonUpdate("u1", d) : d \in ForeignTokens}

PollTokens == Receive(TokenUpdates)

NextTokens ==
    \/ PollTokens
    \/ MessageFlight
    \/ ButtonInfo
    \/ ButtonQuality
    \/ ButtonPlaylist
    \/ ButtonUnknown
    \/ \E s \in Slots : SdDownloaded(s)
    \/ \E s \in Slots : SdSend(s)
    \/ \E s \in Slots : PlIter(s)
    \/ \E s \in Slots : PlDownloaded(s)
    \/ \E s \in Slots : PlSend(s)
    \/ \E s \in Slots : PlSummary(s)
    \/ \E s \in Slots : Return(s)

SpecTokens == Init /\ [][NextTokens]_vars

\* Two conversations: two users, each with a video link and the audio button.

TwoUsers == {"u1", "u2"}

TwoUpdates ==
    {TextUpdate(u, VideoLink) : u \in TwoUsers}
    \cup {ButtonUpdate(u, Tok("type_", "audio")) : u \in TwoUsers}

InitTwo == InitFor(TwoUsers)

PollTwo == Receive(TwoUpdates)

\* The handlers the Application can enter for the update at the head of the queue.
DispatchTwo ==
    \/ MessageFlight
    \/ ButtonTypeAudio

NextTwo ==
    \/ PollTwo
    \/ DispatchTwo
    \/ \E s \in Slots : SdDownloaded(s)
    \/ \E s \in Slots : SdSend(s)
    \/ \E s \in Slots : Return(s)

SpecTwo == InitTwo /\ [][NextTwo]_vars

\* The single-item menus: one user, a video link and the tokens of the type
\* menu and of the quality menu.

MenuUpdates ==
    {TextUpdate("u1", VideoLink)}
    \cup {ButtonUpdate("u1", d) :
            d \in {Tok("type_", "video"), Tok("type_", "audio"), Tok("back_", "type"),
                   Tok("quality_", "best"), Tok("quality_", "720"),
                   Tok("quality_", "480"), Tok("quality_", "360")}}

PollMenu == Receive(MenuUpdates)

NextMenu ==
    \/ PollMenu
    \/ MessageFlight
    \/ ButtonTypeVideo
    \/ ButtonTypeAudio
    \/ ButtonBack
    \/ ButtonQuality
    \/ \E s \in Slots : SdDownloaded(s)
    \/ \E s \in Slots : SdSend(s)
    \/ \E s \in Slots : Return(s)

SpecMenu == Init /\ [][NextMenu]_vars

----------------------------------------------------------------------------
\* Properties.

Single(f) == f.pc # "idle" /\ f.url # None
Batch(f) == f.pc # "idle" /\ f.url = None
Ended(f) == f.pc \in {"done", "raised"}
NonEmpty(entries) == Cardinality({k \in 1..Len(entries) : entries[k] # 0})

\* C1: in the single-item flow, once the executor has produced an artifact
\* file, that file no longer exists when the handler ends (by return or by
\* exception), whatever the result.  A file whose os.remove call itself
\* failed is not counted against the statement.
C1_ArtifactRemovedOnEveryExit ==
    \A s \in Slots :
        (Single(frame[s]) /\ Ended(frame[s]) /\ frame[s].filename # 0)
            => (frame[s].filename \notin files \/ frame[s].rm_failed)

\* C2: during a batch run at most one artifact of the run is on disk; none
\* is left when the download of the next entry starts, nor after the
\* summary.  Files whose os.remove call itself failed are not counted.
C2_OneArtifactAtATime ==
    \A s \in Slots :
        (Batch(frame[s]) /\ ~frame[s].rm_failed)
            => /\ Cardinality(frame[s].artifacts \cap files) <= 1
               /\ (frame[s].pc \in {"pl_exec", "done", "raised"}
                     => frame[s].artifacts \cap files = {})

\* C3: an artifact above 2000 MiB is never sent and the outcome is the
\* size-limit failure; for an artifact of at most 2000 MiB the send is
\* attempted before the delivery step ends, in both flows.
C3_SendIffWithinLimit ==
    \A s \in Slots :
        LET f == frame[s]
            delivery_over == (Single(f) /\ Ended(f)) \/ (Batch(f) /\ f.pc = "pl_loop")
        IN /\ (f.sent => ~TooLarge(f.size))
           /\ (Single(f) /\ Ended(f) /\ TooLarge(f.size) => f.outcome = "too_large")
           /\ (delivery_over /\ f.filename # 0 /\ ~TooLarge(f.size) => f.sent)

\* C4: a failed classification commits nothing: a session that holds a
\* link holds the kind its classification found, and no single-item
\* download is in flight for a link that was never classified.
C4_NoSessionAfterFailedClassification ==
    /\ \A u \in Users :
         user_data[u].current_url # None => user_data[u].is_playlist # None
    /\ \A s \in Slots :
         (Single(frame[s]) /\ frame[s].pc = "sd_exec")
            => user_data[frame[s].user].is_playlist # None

\* C5: when a single-item download attempt has returned, with any outcome,
\* the session is cleared.
C5_SessionClearedAfterSingle ==
    \A s \in Slots :
        (Single(frame[s]) /\ frame[s].pc = "done"
            /\ frame[s].outcome \in {"delivered", "too_large", "upload_failed",
                                     "download_failed"})
            => user_data[frame[s].user] = EmptyUserData

\* C6: per user at most one download handler (single or batch) is in
\* flight at any time, so at most one executor call.
C6_OneDownloadInFlight ==
    \A u \in Users :
        Cardinality({s \in Slots : frame[s].pc # "idle" /\ frame[s].user = u}) <= 1

\* C6, the case: a token that starts a download waits in the queue while a
\* download of the same user awaits the executor.
C6_Witness ==
    \E s \in Slots :
        /\ frame[s].pc \in {"sd_exec", "pl_exec"}
        /\ update_queue # <<>>
        /\ Head(update_queue).user = frame[s].user
        /\ Head(update_queue).kind = "button"
        /\ Branch(Head(update_queue).data) \in {"type_audio", "quality", "playlist"}

C8_ProgressCadence ==
    \A s \in Slots :
        Batch(frame[s])
            => frame[s].progress = {k \in 1..frame[s].i : ProgressDue(k)}

\* C9: succeeded + failed never exceeds the number of entries.
C9_TallyBounded ==
    \A s \in Slots :
        Batch(frame[s])
            => frame[s].success_count + frame[s].fail_count <= Len(frame[s].entries)

\* C10: in the summary every non-empty entry is counted exactly once:
\* succeeded is the number of entries delivered, failed the other
\* non-empty entries; empty entries are not counted.
C10_TallyExact ==
    \A s \in Slots :
        LET f == frame[s]
        IN (Batch(f) /\ f.pc \in {"pl_summary", "done", "raised"})
            => /\ f.success_count = f.delivered
               /\ f.fail_count = NonEmpty(f.entries) - f.delivered

----------------------------------------------------------------------------
\* Steps of button_callback, as seen from outside.

\* The step handles the button token at the head of the queue.
ButtonStep ==
    /\ update_queue # <<>>
    /\ Head(update_queue).kind = "button"
    /\ update_queue' = Tail(update_queue)

HeadUser == Head(update_queue).user
HeadData == Head(update_queue).data
HeadBranch == Branch(Head(update_queue).data)

InFlight(f) == f.pc \in {"sd_exec", "sd_send", "pl_loop", "pl_exec", "pl_send", "pl_summary"}

\* C11: a cancel token handled while the session holds a classified link
\* (a menu is waiting) leaves the session empty: link, kind, download type
\* and quality are discarded, so a later selection token finds no link.
C11_CancelDiscardsSession ==
    [][(ButtonStep /\ HeadBranch = "cancel"
          /\ user_data[HeadUser].current_url # None
          /\ user_data[HeadUser].is_playlist # None)
        => user_data'[HeadUser] = EmptyUserData]_vars

\* C12: a cancel token that arrives while a download or batch of the same
\* user is in flight is not handled before that handler has ended, and
\* handling it changes no handler frame and no file: the operation runs to
\* its end with the link, download type and quality it started with.
C12_CancelLeavesFlightAlone ==
    [][(ButtonStep /\ HeadBranch = "cancel")
        => /\ \A s \in Slots : ~InFlight(frame[s])
           /\ UNCHANGED <<frame, files>>]_vars

\* C12, the case: the cancel token is at the head of the queue while a
\* handler of the same user awaits the executor.
C12_Witness ==
    \E s \in Slots :
        /\ frame[s].pc \in {"sd_exec", "pl_exec"}
        /\ update_queue # <<>>
        /\ Head(update_queue).user = frame[s].user
        /\ Head(update_queue).kind = "button"
        /\ Branch(Head(update_queue).data) = "cancel"

\* The conversation state a session stands for: no link is Idle, a
\* classified video link the single-item menus, a classified playlist link
\* the collection menu.
ConvState(ud) ==
    IF ud.current_url = None THEN "Idle"
    ELSE IF ud.is_playlist = Some(FALSE) THEN "AwaitingSingle"
    ELSE IF ud.is_playlist = Some(TRUE) /\ ud.playlist_info # None
    THEN "AwaitingTypeCollection"
    ELSE "Unclassified"

\* The recognized tokens that are not valid in a conversation state.
InvalidIn(state) ==
    IF state = "Idle"
    THEN {"type_video", "type_audio", "back_type", "quality", "playlist"}
    ELSE IF state = "AwaitingSingle" THEN {"playlist"}
    ELSE IF state = "AwaitingTypeCollection"
    THEN {"type_video", "type_audio", "back_type", "quality"}
    ELSE {}

\* C13: a recognized token that is not valid for the current state of the
\* conversation is ignored: handling it changes neither the session nor the
\* files, and starts no download handler.
C13_InvalidTokenIgnored ==
    [][(ButtonStep /\ HeadData \in RecognizedTokens
          /\ HeadBranch \in InvalidIn(ConvState(user_data[HeadUser])))
        => UNCHANGED <<user_data, files, frame>>]_vars

\* C14: a button token that is not one of the 13 recognized tokens is
\* ignored in every state: handling it changes neither the session nor the
\* files, and starts no download handler.
C14_ForeignTokenIgnored ==
    [][(ButtonStep /\ HeadData \notin RecognizedTokens)
        => UNCHANGED <<user_data, files, frame>>]_vars

\* C15: last submission wins: a session whose link was classified as a
\* single video holds nothing of an earlier session, so no playlist entries
\* are left in it for a later collection token to act on.
C15_LastSubmissionWins ==
    \A u \in Users :
        (user_data[u].current_url # None /\ user_data[u].is_playlist = Some(FALSE))
            => user_data[u].playlist_info = None

\* C16: a download step reached with no link bound ends in the
\* session-expired error: no handler awaits the executor without a link or
\* an entry list, and the session that held no link stays empty.
C16_ExpiredSessionStaysEmpty ==
    /\ \A s \in Slots :
         /\ frame[s].pc = "sd_exec" => frame[s].url # None
         /\ frame[s].pc = "pl_exec" => frame[s].entries # <<>>
    /\ \A u \in Users :
         user_data[u].current_url = None => user_data[u] = EmptyUserData

\* C17: only the conversation that awaits the executor waits: while the
\* download of one user awaits the executor, an update of another user at
\* the head of the queue can be handled.
C17_OtherConversationsProceed ==
    \A s \in Slots :
        (frame[s].pc = "sd_exec" /\ update_queue # <<>>
            /\ Head(update_queue).user # frame[s].user)
            => ENABLED DispatchTwo

\* C18 (as amended): the format rule handed to the engine is a function of
\* (download type, quality) alone, whatever the session went through:
\* Audio is best audio, else best overall; Video Best is the mp4 combination,
\* then the best mp4 single stream, then best overall; Video at a height
\* ceiling H is the mp4 combination at or below H, then the best single
\* stream at or below H in any container, with no further alternative.
C18_FormatRule ==
    \A s \in Slots :
        LET f == frame[s]
        IN (Single(f) /\ f.pc = "sd_exec")
            => /\ f.download_type = "audio"
                    => f.format = <<Alt("audio", "", "any"), Alt("single", "", "any")>>
               /\ (f.download_type = "video" /\ f.quality = "best")
                    => f.format = <<Alt("video+audio", "", "mp4"),
                                    Alt("single", "", "mp4"), Alt("single", "", "any")>>
               /\ (f.download_type = "video" /\ f.quality \in {"720", "480", "360"})
                    => f.format = <<Alt("video+audio", f.quality, "mp4"),
                                    Alt("single", f.quality, "any")>>

\* C18, the case: a video download at the 720 ceiling awaits the executor
\* after an earlier call of download_video (its file is still on disk).
C18_Witness ==
    \E s \in Slots :
        /\ Single(frame[s]) /\ frame[s].pc = "sd_exec"
        /\ frame[s].download_type = "video" /\ frame[s].quality = "720"
        /\ files # {}

\* C18 (as stated): at a height ceiling the rule has the same two-tier
\* fallback as Video Best: the preferred-container combination, then the
\* preferred-container single stream, then best overall.
C18_SameFallbackAsBest ==
    \A s \in Slots :
        LET f == frame[s]
        IN (Single(f) /\ f.pc = "sd_exec" /\ f.download_type = "video"
              /\ f.quality \in {"720", "480", "360"})
            => f.format = <<Alt("video+audio", f.quality, "mp4"),
                            Alt("single", f.quality, "mp4"), Alt("single", "", "any")>>

\* C19: in the single-item menus type_video and back_type change nothing but
\* the prompt: the session (link, kind, download type, quality), the files
\* and the handler frames stay as they are; a single-item download starts
\* only on type_audio, as audio, or on a quality_* token, as video with the
\* quality the token names.
C19_OnlyAudioAndQualityStart ==
    [][/\ (ButtonStep /\ HeadBranch \in {"type_video", "back_type"})
            => UNCHANGED <<user_data, files, frame>>
       /\ \A s \in Slots :
            (frame[s].pc = "idle" /\ frame'[s].pc = "sd_exec")
                => /\ ButtonStep
                   /\ \/ /\ HeadBranch = "type_audio"
                         /\ frame'[s].download_type = "audio"
                      \/ /\ HeadBranch = "quality"
                         /\ frame'[s].download_type = "video"
                         /\ frame'[s].quality = HeadData.s]_vars

\* C19, the case: with a classified video link in the session and an
\* earlier choice of the audio type still recorded in it, type_video or
\* back_type is the token the dispatcher handles next.
C19_Witness ==
    /\ update_queue # <<>>
    /\ Head(update_queue).kind = "button"
    /\ Branch(Head(update_queue).data) \in {"type_video", "back_type"}
    /\ DispatcherFree
    /\ ConvState(user_data[Head(update_queue).user]) = "AwaitingSingle"
    /\ user_data[Head(update_queue).user].download_type = Some("audio")

\* C20, the case: download handlers of two different users are in flight at
\* the same time.  Its negation is an invariant of SpecTwo: the dispatcher
\* enters no handler while another one runs.
ConcurrentDownloads ==
    \E s \in Slots, t \in Slots :
        /\ InFlight(frame[s]) /\ InFlight(frame[t])
        /\ frame[s].user # frame[t].user

NoConcurrentDownloads == ~ConcurrentDownloads

\* The step handles the text message at the head of the queue.
MessageStep ==
    /\ update_queue # <<>>
    /\ Head(update_queue).kind = "text"
    /\ update_queue' = Tail(update_queue)

\* The session still is the one the handler read its link or entries from.
StartedFrom(f, ud) ==
    IF f.url # None
    THEN ud.current_url = f.url
    ELSE ud.playlist_info # None /\ ud.playlist_info[1].entries = f.entries

====
